---- MODULE Spec2Model ----
(***************************************************************************)
(* A model of HelloPromise (src/src/HelloPromise.js): the settlement state *)
(* machine, the callback queue with its asynchronous drain, the resolution *)
(* procedure and the chaining operation `then`.                            *)
(*                                                                         *)
(* One step of the model is one task of the host's event loop: either a    *)
(* timer task queued by runAsync (a drain), or a task in which the         *)
(* surrounding program calls a public operation.  Everything the code does *)
(* synchronously inside that task, nested and re-entrant calls included,   *)
(* is computed by the operators below on a record h holding the heap.      *)
(***************************************************************************)
EXTENDS Integers, Sequences, FiniteSets, TLC

\* Bounds of the model: how many containers the surrounding program may
\* create or chain from, and how many calls it makes in all.
MaxPromises == 3
MaxOps == 3

VARIABLES
    heap,        \* the instances and the host's timer queue, see below
    deferred,    \* the containers whose resolve and reject the program holds
    first,       \* history, per container the program constructed: the first
                 \* call of its resolve or reject
    ncalls,      \* history: how many calls of its resolve and reject were made
    ops          \* number of calls the surrounding program has made

vars == <<heap, deferred, first, ncalls, ops>>

\* The fields of the heap.
state == heap.state          \* state[p]: "pending" | "resolved" | "rejected"
value == heap.value          \* value[p]: the stored payload (this.value)
callbacks == heap.callbacks  \* callbacks[p]: queue of reaction ids (this.callbacks)
reactions == heap.reactions  \* every Callback object built by then, by id
timers == heap.timers        \* the host's timer queue: the drains runAsync queued
latches == heap.latches      \* one entry per call of a thenable's then
log == heap.log              \* history: every invocation of a reaction's handler
nsettle == heap.nsettle      \* history: how often _transition wrote p's state
selfAsk == heap.selfAsk      \* history: p, pending, was asked to fulfill with itself
caught == heap.caught        \* history: what p's constructor caught from its executor
threw == heap.threw          \* history: every throw of a thenable's then, read or called

----------------------------------------------------------------------------
\* JavaScript values, as far as the code distinguishes them.

Val(k, n, t) == [k |-> k, n |-> n, t |-> t]
Num(n) == Val("int", n, "")
Str(n) == Val("str", n, "")       \* 1: "boom", 2: "e", 0: any other string
Null == Val("null", 0, "")
Undef == Val("undefined", 0, "")
NaN == Val("nan", 0, "")
TypeErr == Val("typeerror", 0, "")  \* a TypeError object
PromiseVal(p) == Val("promise", p, "")  \* the HelloPromise instance p
Thenable(t) == Val("thenable", 0, t)    \* a foreign object with a `then` member
Func == Val("function", 0, "")          \* a function without a `then` member

Boom == Str(1)
Err == Str(2)

StrLength(n) == IF n = 1 THEN 4 ELSE IF n = 2 THEN 1 ELSE 5

\* The foreign objects of the model.  kind: what reading `then` gives;
\* script: what a callable `then` does, synchronously, with the two
\* callbacks it is handed; async: the calls it may make to them in later
\* tasks (any of them, any number of times).
Op(o, t, v) == [op |-> o, t |-> t, v |-> v]
Thenables ==
    [twice |->        \* calls resolve twice, then reject
        [kind |-> "callable",
         script |-> <<Op("res", "", Num(1)), Op("res", "", Num(2)), Op("rej", "", Boom)>>,
         async |-> {}],
     later |->        \* keeps the callbacks and calls them in later tasks
        [kind |-> "callable", script |-> <<>>,
         async |-> {Op("res", "", Num(1)), Op("res", "", Num(2)), Op("rej", "", Boom)}],
     resThrow |->     \* resolves with a pending thenable, then throws
        [kind |-> "callable",
         script |-> <<Op("res", "", Thenable("later")), Op("throw", "", Err)>>,
         async |-> {}],
     throws |->       \* throws without calling anything
        [kind |-> "callable", script |-> <<Op("throw", "", Err)>>, async |-> {}],
     getter |->       \* reading `then` throws
        [kind |-> "getterThrows", script |-> <<>>, async |-> {}],
     plain |->        \* `then` is not a function
        [kind |-> "notCallable", script |-> <<>>, async |-> {}],
     outer |->        \* keeps its callbacks in a variable and resolves with `inner`
        [kind |-> "callable",
         script |-> <<Op("res", "", Thenable("inner"))>>, async |-> {}],
     inner |->        \* its then calls outer's kept reject, then its own resolve
        [kind |-> "callable",
         script |-> <<Op("xrej", "outer", Boom), Op("res", "", Num(1))>>,
         async |-> {}],
     chain3 |->       \* resolves with a thenable that resolves with a thenable
        [kind |-> "callable",
         script |-> <<Op("res", "", Thenable("chain2"))>>, async |-> {}],
     chain2 |->
        [kind |-> "callable",
         script |-> <<Op("res", "", Thenable("later"))>>, async |-> {}],
     viaFirst |->     \* resolves with the first container the program made
        [kind |-> "callable",
         script |-> <<Op("res", "", PromiseVal(1))>>, async |-> {}]]

ThenableIds == DOMAIN Thenables

\* The thenables that only the programs of single claims use.
ChainIds == {"chain3", "chain2", "viaFirst"}

\* Handlers: what then is given as onFulfilled / onRejected.
\*   none      not a function (omitted)
\*   inc       x => x + 1
\*   len       r => r.length
\*   const     () => v
\*   throw     () => { throw v }
\*   self      () => D, the container that this very then call returned
\*   rethen    () => { S.then(x => x + 1) }, S the container being drained
\*   resolver  p._resolver, reject: p._reject, where v = PromiseVal(p)
Fn(k, v) == [k |-> k, v |-> v]
None == Fn("none", Undef)
UserFns == {"inc", "len", "const", "throw", "self", "rethen"}

\* typeof value === 'function': true of the handlers above, of a callable
\* `then` member and of the value Func.
isFunction(x) == x.k \in UserFns \cup {"resolver", "reject", "then", "function"}
\* typeof value === 'object'
isObject(v) == v.k \in {"null", "typeerror", "promise", "thenable"}
\* value instanceof HelloPromise
isPromise(v) == v.k = "promise"
\* JavaScript truthiness, for `... && value`
Truthy(v) == ~(v.k \in {"null", "undefined", "nan"} \/ v = Num(0))

\* x + 1
Inc(x) == IF x.k = "int" THEN Num(x.n + 1)
          ELSE IF x.k = "undefined" THEN NaN ELSE Str(0)

\* r.length: [thrown, v]
Length(r) == IF r.k = "str" THEN [thrown |-> FALSE, v |-> Num(StrLength(r.n))]
             ELSE IF r.k \in {"null", "undefined"} THEN [thrown |-> TRUE, v |-> TypeErr]
             ELSE [thrown |-> FALSE, v |-> Undef]

----------------------------------------------------------------------------
\* TLC evaluates an operator's argument anew at each use of the parameter;
\* Strict(x, F) is F(x) with x evaluated once.
Strict(x, F(_)) == CHOOSE r \in {F(y) : y \in {x}} : TRUE

\* The heap, as one record, and the code's methods as operators on it.

\* heap.now is task-local history, empty at the start of every task: the
\* containers settled (now.settled) and the reactions registered
\* (now.registered) so far in the task being run.
NoneNow == [settled |-> {}, registered |-> {}]

\* The end of a task: the heap the task leaves behind.
Commit(h) == heap' = [h EXCEPT !.now = NoneNow]

\* runAsync(fire): the fire closure of p joins the host's timer queue.
runAsync(h, p, member) ==
    [h EXCEPT !.timers = Append(@, [p |-> p, member |-> member])]

\* _executeCallbacks without the bail on a pending container.
ExecuteCallbacksNoBail(h, p) ==
    runAsync(h, p, IF h.state[p] = "resolved" THEN "onFulfilled" ELSE "onRejected")

\* _executeCallbacks, up to the scheduling of fire (the drain itself: fire).
_executeCallbacks(h, p) ==
    IF h.state[p] = "pending" THEN h
    ELSE runAsync(h, p, IF h.state[p] = "resolved" THEN "onFulfilled" ELSE "onRejected")

AddCallbackFront(h, p, rid) ==
    _executeCallbacks([h EXCEPT !.callbacks[p] = <<rid>> \o @], p)

\* _addCallback that only pushes, without asking for a drain.
AddCallbackNoDrain(h, p, rid) ==
    [h EXCEPT !.callbacks[p] = Append(@, rid)]

_addCallback(h, p, rid) ==
    _executeCallbacks([h EXCEPT !.callbacks[p] = Append(@, rid)], p)

TransitionUnguarded(h, p, st, v) ==
    _executeCallbacks([h EXCEPT !.value[p] = v, !.state[p] = st,
                                !.nsettle[p] = @ + 1,
                                !.now.settled = @ \cup {p}], p)

\* _transition that does not ask for a drain after settling.
TransitionNoDrain(h, p, st, v) ==
    IF h.state[p] # "pending" THEN h
    ELSE [h EXCEPT !.value[p] = v, !.state[p] = st,
                   !.nsettle[p] = @ + 1,
                   !.now.settled = @ \cup {p}]

_transition(h, p, st, v) ==
    IF h.state[p] # "pending" THEN h
    ELSE _executeCallbacks([h EXCEPT !.value[p] = v, !.state[p] = st,
                                     !.nsettle[p] = @ + 1,
                                     !.now.settled = @ \cup {p}], p)

_fulfill(h, p, v) == _transition(h, p, "resolved", v)

_reject(h, p, r) == _transition(h, p, "rejected", r)

\* History of a constructor whose executor has thrown nothing.
NoCatch == [st |-> "none", val |-> Undef, e |-> Undef]

\* The constructor's field initialisers: a new instance, pending, value null.
NewInstance(h) ==
    [h EXCEPT !.state = Append(@, "pending"), !.value = Append(@, Null),
              !.callbacks = Append(@, <<>>),
              !.nsettle = Append(@, 0), !.selfAsk = Append(@, FALSE),
              !.caught = Append(@, NoCatch)]

\* then: new HelloPromise(executor) whose executor builds the Callback and
\* hands it to _addCallback.  The executor throws nothing.  The new
\* container is Len(h.state) + 1.
then(h, src, onFulfilled, onRejected) ==
    LET d == Len(h.state) + 1
        rid == Len(h.reactions) + 1
        h1 == NewInstance(h)
        h2 == [h1 EXCEPT !.reactions = Append(@,
                  [src |-> src, d |-> d, onFulfilled |-> onFulfilled,
                   onRejected |-> onRejected]),
                         !.now.registered = @ \cup {rid}]
    IN _addCallback(h2, src, rid)

----------------------------------------------------------------------------
\* The resolution procedure.  _resolver, _handleThen, the callbacks handed
\* to a thenable and the thenable's own then call one another.

RECURSIVE _resolver(_, _, _)
RECURSIVE _handleThen(_, _, _)
RECURSIVE once(_, _, _, _)
RECURSIVE ThenCall(_, _, _, _)

\* The latch of one _handleThen call on container p for thenable t: the
\* closure variable wasCalled.  ran, calls and fst are history: how many
\* calls of the two callbacks ran their settlement, how many were made, and
\* the first of them.
NewLatch(h, p, t) ==
    [h EXCEPT !.latches = Append(@, [p |-> p, t |-> t, wasCalled |-> FALSE,
                                     ran |-> 0, calls |-> 0,
                                     fst |-> [op |-> "none", v |-> Undef]])]

\* The latest latch made for thenable t (0: none): what a thenable that
\* keeps the callbacks of its last then call in a variable refers to.
LastLatchOf(h, t) ==
    LET S == {i \in 1..Len(h.latches) : h.latches[i].t = t}
    IN IF S = {} THEN 0 ELSE CHOOSE i \in S : \A j \in S : j <= i

\* Bookkeeping of one call of a callback handed to a thenable.
CountCall(h, L, which, y, ran) ==
    IF which = "catch" THEN h
    ELSE [h EXCEPT !.latches[L].calls = @ + 1,
                   !.latches[L].ran = @ + (IF ran THEN 1 ELSE 0),
                   !.latches[L].fst = IF h.latches[L].calls = 0
                                      THEN [op |-> which, v |-> y] ELSE @]

\* once whose resolve callback fulfills with y as it is, without running
\* the resolution procedure on it.
OnceNoUnwrap(h, L, which, y) ==
    IF h.latches[L].wasCalled THEN CountCall(h, L, which, y, FALSE)
    ELSE LET p == h.latches[L].p
             h1 == CountCall(h, L, which, y, TRUE)
             h2 == IF which = "res" THEN _fulfill(h1, p, y) ELSE _reject(h1, p, y)
         IN [h2 EXCEPT !.latches[L].wasCalled = TRUE]

\* once(fn), for the three closures of _handleThen that are called after
\* then has been read:  which = "res":   y => once(_ => this._resolver(y))
\*                      which = "rej":   y => once(_ => this._reject(y))
\*                      which = "catch": once(_ => this._reject(reason))
\* if (wasCalled) return; fn(); wasCalled = true;
once(h, L, which, y) ==
    IF h.latches[L].wasCalled THEN CountCall(h, L, which, y, FALSE)
    ELSE LET p == h.latches[L].p
             h1 == CountCall(h, L, which, y, TRUE)
             h2 == IF which = "res" THEN _resolver(h1, p, y) ELSE _reject(h1, p, y)
         IN [h2 EXCEPT !.latches[L].wasCalled = TRUE]

\* History: reading or calling then threw e in a _handleThen call on p with
\* latch L (0: then was not yet read); h is the heap at the throw, h1 the
\* heap the catch clause leaves.  called: a callback handed to then had been
\* called; st: p's state at the throw; hit: the catch clause changed p.
NoteThrow(h, h1, p, L, e) ==
    [h1 EXCEPT !.threw = Append(@,
        [p |-> p, e |-> e, called |-> L # 0 /\ h.latches[L].calls > 0,
         st |-> h.state[p],
         hit |-> h1.state[p] # h.state[p] \/ h1.value[p] # h.value[p]])]

\* then.call whose catch clause rejects without asking the latch.
ThenCallCatchAlways(h, L, t, i) ==
    LET script == Thenables[t].script
        p == h.latches[L].p IN
    IF i > Len(script) THEN h
    ELSE LET s == script[i] IN
         CASE s.op = "res" -> ThenCall(once(h, L, "res", s.v), L, t, i + 1)
           [] s.op = "rej" -> ThenCall(once(h, L, "rej", s.v), L, t, i + 1)
           [] s.op = "throw" -> NoteThrow(h, _reject(h, p, s.v), p, L, s.v)
           [] s.op \in {"xres", "xrej"} ->
                LET O == LastLatchOf(h, s.t) IN
                IF O = 0 THEN NoteThrow(h, _reject(h, p, TypeErr), p, L, TypeErr)
                ELSE ThenCall(once(h, O, IF s.op = "xres" THEN "res" ELSE "rej", s.v),
                              L, t, i + 1)

\* then.call(value, res, rej) for the foreign thenable t, from step i of its
\* script, inside the try block of _handleThen: a throw ends the script and
\* is caught by the catch clause, which calls once(_ => this._reject(reason)).
\* The callbacks never throw, so each call returns into the script.
ThenCall(h, L, t, i) ==
    LET script == Thenables[t].script
        p == h.latches[L].p IN
    IF i > Len(script) THEN h
    ELSE LET s == script[i] IN
         CASE s.op = "res" -> ThenCall(once(h, L, "res", s.v), L, t, i + 1)
           [] s.op = "rej" -> ThenCall(once(h, L, "rej", s.v), L, t, i + 1)
           [] s.op = "throw" -> NoteThrow(h, once(h, L, "catch", s.v), p, L, s.v)
           [] s.op \in {"xres", "xrej"} ->
                \* a call of the callbacks another thenable has kept; with
                \* none kept yet, reading them throws a TypeError
                LET O == LastLatchOf(h, s.t) IN
                IF O = 0 THEN NoteThrow(h, once(h, L, "catch", TypeErr), p, L, TypeErr)
                ELSE ThenCall(once(h, O, IF s.op = "xres" THEN "res" ELSE "rej", s.v),
                              L, t, i + 1)

\* _handleThen that never calls then: a callable then is treated like any
\* other member.
HandleThenNoCall(h, p, v) ==
    IF v.k # "thenable" THEN _fulfill(h, p, v)
    ELSE IF Thenables[v.t].kind = "getterThrows"
         THEN NoteThrow(h, _reject(h, p, Err), p, 0, Err)
    ELSE _fulfill(h, p, v)

\* _handleThen(value) for a thenable value.  Before then.call the flag
\* wasCalled is false, so the two once calls on those paths run their fn.
_handleThen(h, p, v) ==
    IF v.k # "thenable" THEN _fulfill(h, p, v)       \* value.then is undefined
    ELSE LET kind == Thenables[v.t].kind IN
         IF kind = "getterThrows" THEN NoteThrow(h, _reject(h, p, Err), p, 0, Err)
         ELSE IF kind = "notCallable" THEN _fulfill(h, p, v)
         ELSE LET h1 == NewLatch(h, p, v.t)
              IN ThenCall(h1, Len(h1.latches), v.t, 1)

\* History: container p, still pending, is asked to fulfill with itself.
NoteSelfAsk(h, p, v) ==
    IF v = PromiseVal(p) /\ h.state[p] = "pending"
    THEN [h EXCEPT !.selfAsk[p] = TRUE] ELSE h

\* _resolver without the 2.3.1 check.
ResolverNoSelfCheck(h, p, v) ==
    IF isPromise(v) THEN
        then(NoteSelfAsk(h, p, v), v.n,
             Fn("resolver", PromiseVal(p)), Fn("reject", PromiseVal(p)))
    ELSE IF (isObject(v) \/ isFunction(v)) /\ Truthy(v) THEN _handleThen(h, p, v)
    ELSE _fulfill(h, p, v)

\* _resolver that fulfills with a container instead of subscribing to it.
ResolverNoSubscribe(h, p, v) ==
    IF v = PromiseVal(p) THEN _reject(h, p, TypeErr)
    ELSE IF (isObject(v) \/ isFunction(v)) /\ Truthy(v) /\ ~isPromise(v)
         THEN _handleThen(h, p, v)
    ELSE _fulfill(h, p, v)

\* _resolver without the `&& value` test: null reaches _handleThen, where
\* reading null.then throws a TypeError.
ResolverNoNullTest(h, p, v) ==
    IF v = PromiseVal(p) THEN _reject(NoteSelfAsk(h, p, v), p, TypeErr)
    ELSE IF isPromise(v) THEN
        then(h, v.n, Fn("resolver", PromiseVal(p)), Fn("reject", PromiseVal(p)))
    ELSE IF v = Null THEN _reject(h, p, TypeErr)
    ELSE IF isObject(v) \/ isFunction(v) THEN _handleThen(h, p, v)
    ELSE _fulfill(h, p, v)

_resolver(h, p, v) ==
    IF v = PromiseVal(p) THEN _reject(NoteSelfAsk(h, p, v), p, TypeErr)
    ELSE IF isPromise(v) THEN
        then(h, v.n, Fn("resolver", PromiseVal(p)), Fn("reject", PromiseVal(p)))
    ELSE IF (isObject(v) \/ isFunction(v)) /\ Truthy(v) THEN _handleThen(h, p, v)
    ELSE _fulfill(h, p, v)

\* What _resolver returns to its caller: the container made by value.then
\* on the 2.3.2 path, undefined on every other path.
ResolverResult(h, p, v) ==
    IF v # PromiseVal(p) /\ isPromise(v) THEN PromiseVal(Len(h.state) + 1) ELSE Undef

----------------------------------------------------------------------------
\* The chaining operation's wrappers and the drain.

\* fn(value) for a handler fn of reaction r: [h, thrown, v].
Call(h, fn, x, r) ==
    CASE fn.k = "inc" -> [h |-> h, thrown |-> FALSE, v |-> Inc(x)]
      [] fn.k = "len" -> [h |-> h, thrown |-> Length(x).thrown, v |-> Length(x).v]
      [] fn.k = "const" -> [h |-> h, thrown |-> FALSE, v |-> fn.v]
      [] fn.k = "throw" -> [h |-> h, thrown |-> TRUE, v |-> fn.v]
      [] fn.k = "self" -> [h |-> h, thrown |-> FALSE, v |-> PromiseVal(r.d)]
      [] fn.k = "rethen" ->
           [h |-> then(h, r.src, Fn("inc", Undef), None), thrown |-> FALSE, v |-> Undef]
      [] fn.k = "resolver" ->
           [h |-> _resolver(h, fn.v.n, x), thrown |-> FALSE,
            v |-> ResolverResult(h, fn.v.n, x)]
      [] fn.k = "reject" ->
           [h |-> _reject(h, fn.v.n, x), thrown |-> FALSE, v |-> Undef]

\* member(fn, fallback) with the guarded block left out: a throw of fn is
\* not turned into a rejection of the derived container.
MemberNoCatch(h0, rid, which, x) ==
    Strict(h0, LAMBDA h :
    LET r == h.reactions[rid]
        fn == IF which = "onFulfilled" THEN r.onFulfilled ELSE r.onRejected
        c == Call(h, fn, x, r)
    IN IF ~isFunction(fn)
       THEN IF which = "onFulfilled" THEN _resolver(h, r.d, x) ELSE _reject(h, r.d, x)
       ELSE IF c.thrown THEN c.h ELSE _resolver(c.h, r.d, c.v))

\* member(fn, fallback) whose fallback is resolve on both sides.
MemberFallbackResolve(h0, rid, which, x) ==
    Strict(h0, LAMBDA h :
    LET r == h.reactions[rid]
        fn == IF which = "onFulfilled" THEN r.onFulfilled ELSE r.onRejected
        c == Call(h, fn, x, r)
    IN IF ~isFunction(fn) THEN _resolver(h, r.d, x)
       ELSE IF c.thrown THEN _reject(c.h, r.d, c.v) ELSE _resolver(c.h, r.d, c.v))

\* The closure member(fn, fallback) of then, applied to x: the onFulfilled
\* (fallback resolve) or onRejected (fallback reject) entry of reaction rid.
member(h0, rid, which, x) ==
    Strict(h0, LAMBDA h :
    LET r == h.reactions[rid]
        fn == IF which = "onFulfilled" THEN r.onFulfilled ELSE r.onRejected
        c == Call(h, fn, x, r)
    IN IF ~isFunction(fn)
       THEN IF which = "onFulfilled" THEN _resolver(h, r.d, x) ELSE _reject(h, r.d, x)
       ELSE IF c.thrown THEN _reject(c.h, r.d, c.v) ELSE _resolver(c.h, r.d, c.v))

\* History: callback[member](this.value) is being invoked; inThenTask: in
\* the task of the then call that registered it; inSettleTask: in the task
\* in which its container settled.
NoteCall(h, rid, which, x) ==
    [h EXCEPT !.log = Append(@,
        [rid |-> rid, member |-> which, arg |-> x,
         inThenTask |-> rid \in h.now.registered,
         inSettleTask |-> h.reactions[rid].src \in h.now.settled])]

RECURSIVE fire(_, _, _)

\* fire that calls both entries of the callback.
FireBoth(h0, p, which) ==
    Strict(h0, LAMBDA h :
    IF h.callbacks[p] = <<>> THEN h
    ELSE LET rid == Head(h.callbacks[p])
             h1 == [h EXCEPT !.callbacks[p] = Tail(@)]
             x == h1.value[p]
             h2 == member(NoteCall(h1, rid, "onFulfilled", x), rid, "onFulfilled", x)
         IN fire(member(NoteCall(h2, rid, "onRejected", x), rid, "onRejected", x),
                 p, which))

\* The closure fire of _executeCallbacks, run as a timer task:
\* while (this.callbacks.length) { callbacks.shift()[member](this.value) }
fire(h0, p, which) ==
    Strict(h0, LAMBDA h :
    IF h.callbacks[p] = <<>> THEN h
    ELSE LET rid == Head(h.callbacks[p])
             h1 == [h EXCEPT !.callbacks[p] = Tail(@)]
         IN fire(member(NoteCall(h1, rid, which, h1.value[p]), rid, which, h1.value[p]),
                 p, which))

\* The constructor: the field initialisers, then executor(resolve, reject)
\* inside try; a throw of the executor is passed to _reject.  setup is the
\* executor's script of calls; the new container is Len(h.state) + 1.
RECURSIVE RunSetup(_, _, _, _)

\* History: the executor of p throws e; p's state and payload at that moment.
NoteCaught(h, p, e) ==
    [h EXCEPT !.caught[p] = [st |-> h.state[p], val |-> h.value[p], e |-> e]]

\* The constructor without its catch clause: the thrown value is dropped.
RunSetupNoCatch(h, p, setup, i) ==
    IF i > Len(setup) THEN h
    ELSE LET s == setup[i] IN
         CASE s.op = "res" -> RunSetup(_resolver(h, p, s.v), p, setup, i + 1)
           [] s.op = "rej" -> RunSetup(_reject(h, p, s.v), p, setup, i + 1)
           [] s.op = "throw" -> NoteCaught(h, p, s.v)

RunSetup(h, p, setup, i) ==
    IF i > Len(setup) THEN h
    ELSE LET s == setup[i] IN
         CASE s.op = "res" -> RunSetup(_resolver(h, p, s.v), p, setup, i + 1)
           [] s.op = "rej" -> RunSetup(_reject(h, p, s.v), p, setup, i + 1)
           [] s.op = "throw" -> _reject(NoteCaught(h, p, s.v), p, s.v)

constructor(h, setup) ==
    LET h1 == NewInstance(h) IN RunSetup(h1, Len(h1.state), setup, 1)

----------------------------------------------------------------------------
\* The surrounding program and the host's event loop.

NoCall == [which |-> "none", v |-> Undef]
Promises == 1..Len(state)

\* Values the program fulfills with, besides containers: a number and the
\* thenables Ts; and the reasons it rejects with.
ResolveInputs(Ts) == {Num(1)} \cup {Thenable(t) : t \in Ts}
RejectInputs == {Boom, Thenable("twice")}

\* The values S and, if asked for, every container there is.
Among(S, containers) ==
    S \cup (IF containers THEN {PromiseVal(q) : q \in Promises} ELSE {})

\* The handler pairs the program passes to then.
HandlerPairs ==
    {<<None, None>>,
     <<Fn("inc", Undef), Fn("len", Undef)>>,
     <<Fn("self", Undef), Fn("throw", Err)>>,
     <<Fn("rethen", Undef), Fn("rethen", Undef)>>,
     <<Fn("const", Thenable("twice")), Fn("const", Num(1))>>}

\* The heap at the start of a new task.
Task == heap

Init ==
    /\ heap = [state |-> <<>>, value |-> <<>>, callbacks |-> <<>>,
               reactions |-> <<>>, timers |-> <<>>, latches |-> <<>>,
               log |-> <<>>, nsettle |-> <<>>, selfAsk |-> <<>>, caught |-> <<>>,
               threw |-> <<>>,
               now |-> NoneNow]
    /\ deferred = {}
    /\ first = <<>>
    /\ ncalls = <<>>
    /\ ops = 0

\* adapter.deferred(): new HelloPromise((res, rej) => { resolve = res; reject = rej })
NewDeferred ==
    /\ ops < MaxOps
    /\ Len(state) < MaxPromises
    /\ Commit(constructor(Task, <<>>))
    /\ deferred' = deferred \cup {Len(state) + 1}
    /\ first' = first @@ (Len(state) + 1 :> NoCall)
    /\ ncalls' = ncalls @@ (Len(state) + 1 :> 0)
    /\ ops' = ops + 1

\* HelloPromise.resolve(v)
StaticResolve(v) ==
    /\ ops < MaxOps
    /\ Len(state) < MaxPromises
    /\ Commit(constructor(Task, <<Op("res", "", v)>>))
    /\ first' = first @@ (Len(state) + 1 :> [which |-> "res", v |-> v])
    /\ ncalls' = ncalls @@ (Len(state) + 1 :> 1)
    /\ ops' = ops + 1
    /\ UNCHANGED deferred

\* A static reject that hands its argument to resolve.
StaticRejectResolves(r) ==
    /\ ops < MaxOps
    /\ Len(state) < MaxPromises
    /\ Commit(constructor(Task, <<Op("res", "", r)>>))
    /\ first' = first @@ (Len(state) + 1 :> [which |-> "rej", v |-> r])
    /\ ncalls' = ncalls @@ (Len(state) + 1 :> 1)
    /\ ops' = ops + 1
    /\ UNCHANGED deferred

\* HelloPromise.reject(r)
StaticReject(r) ==
    /\ ops < MaxOps
    /\ Len(state) < MaxPromises
    /\ Commit(constructor(Task, <<Op("rej", "", r)>>))
    /\ first' = first @@ (Len(state) + 1 :> [which |-> "rej", v |-> r])
    /\ ncalls' = ncalls @@ (Len(state) + 1 :> 1)
    /\ ops' = ops + 1
    /\ UNCHANGED deferred

\* new HelloPromise(setup) for an executor that throws: setup is the script
\* of the calls it makes before.  first and ncalls count the throw, which
\* the constructor turns into a call of reject.
Construct(setup) ==
    /\ ops < MaxOps
    /\ Len(state) < MaxPromises
    /\ Commit(constructor(Task, setup))
    /\ first' = first @@ (Len(state) + 1 :> [which |-> setup[1].op, v |-> setup[1].v])
    /\ ncalls' = ncalls @@ (Len(state) + 1 :> Len(setup))
    /\ ops' = ops + 1
    /\ UNCHANGED deferred

\* p.then(onFulfilled).then(), one statement of the program.
CallThenThen(p, onFulfilled) ==
    /\ ops < MaxOps
    /\ Len(state) + 1 < MaxPromises
    /\ p \in Promises
    /\ LET h == then(Task, p, onFulfilled, None)
       IN Commit(then(h, Len(h.state), None, None))
    /\ ops' = ops + 1
    /\ UNCHANGED <<deferred, first, ncalls>>

\* A call, in a task of its own, of the resolve or reject kept from a
\* deferred: p._resolver(v) or p._reject(v).
CallSettle(p, which, v) ==
    /\ ops < MaxOps
    /\ p \in deferred
    /\ Commit(IF which = "res" THEN _resolver(Task, p, v)
              ELSE _reject(Task, p, v))
    /\ first' = IF ncalls[p] = 0
                THEN [first EXCEPT ![p] = [which |-> which, v |-> v]] ELSE first
    /\ ncalls' = [ncalls EXCEPT ![p] = @ + 1]
    /\ ops' = ops + 1
    /\ UNCHANGED deferred

\* p.then(onFulfilled, onRejected), called by the program in a task of its own.
CallThen(p, pair) ==
    /\ ops < MaxOps
    /\ Len(state) < MaxPromises
    /\ p \in Promises
    /\ Commit(then(Task, p, pair[1], pair[2]))
    /\ ops' = ops + 1
    /\ UNCHANGED <<deferred, first, ncalls>>

\* A foreign thenable calls, in a later task, a callback it was handed.
ThenableCalls(L, c) ==
    /\ ops < MaxOps
    /\ L \in 1..Len(latches)
    /\ c \in Thenables[latches[L].t].async
    /\ Commit(once(Task, L, c.op, c.v))
    /\ ops' = ops + 1
    /\ UNCHANGED <<deferred, first, ncalls>>

\* The host runs the oldest timer task: a fire closure queued by runAsync.
RunTask ==
    /\ timers # <<>>
    /\ LET t == Head(timers)
       IN Commit(fire([Task EXCEPT !.timers = Tail(@)], t.p, t.member))
    /\ UNCHANGED <<deferred, first, ncalls, ops>>

\* One task: a call by a program that fulfills with the values Vs (and with
\* containers, if vq), rejects with the reasons Rs (and with containers, if
\* rq) and passes the handler pairs Pairs to then, or the host's next timer
\* task.
StepWith(Vs, vq, Rs, rq, Pairs) ==
    \/ NewDeferred
    \/ \E v \in Among(Vs, vq) : StaticResolve(v)
    \/ \E r \in Among(Rs, rq) : StaticReject(r)
    \/ \E p \in deferred, v \in Among(Vs, vq) : CallSettle(p, "res", v)
    \/ \E p \in deferred, r \in Among(Rs, rq) : CallSettle(p, "rej", r)
    \/ \E p \in Promises, pair \in Pairs : CallThen(p, pair)
    \/ \E L \in 1..Len(latches) : \E c \in Thenables[latches[L].t].async :
          ThenableCalls(L, c)
    \/ RunTask

\* The program that uses the thenables Ts and the handler pairs Pairs.
Step(Ts, Pairs) == StepWith(ResolveInputs(Ts), TRUE, RejectInputs, FALSE, Pairs)

Next == Step(ThenableIds \ ({"inner"} \cup ChainIds), HandlerPairs)

Spec == Init /\ [][Next]_vars

\* The program of the liveness properties: it uses the thenable that calls
\* back later and the handlers that chain further.
FairNext ==
    Step({"later"}, {<<None, None>>, <<Fn("inc", Undef), Fn("len", Undef)>>,
                     <<Fn("rethen", Undef), Fn("rethen", Undef)>>})

\* The host's timer queue runs every task it holds.
FairSpec == Init /\ [][FairNext]_vars /\ WF_vars(RunTask)

----------------------------------------------------------------------------
\* Properties.

Made == DOMAIN first
Logged == 1..Len(log)
Src(i) == reactions[log[i].rid].src
Derived(i) == reactions[log[i].rid].d
HandlerOf(i) == IF log[i].member = "onFulfilled"
                THEN reactions[log[i].rid].onFulfilled
                ELSE reactions[log[i].rid].onRejected

\* What the resolution procedure makes of (c, v) when c is pending.
Dictates(c, v) ==
    LET h == _resolver([heap EXCEPT !.state[c] = "pending"], c, v)
    IN [state |-> h.state[c], value |-> h.value[c]]

\* C1: a container that is no longer pending keeps its state and payload in
\* every later step, whatever settlement attempts are made, and _transition
\* writes a container's state at most once.
C1_SettledIsFinal ==
    [][/\ \A p \in 1..Len(state) :
             state[p] # "pending" => state'[p] = state[p] /\ value'[p] = value[p]
       /\ \A p \in 1..Len(state') : nsettle'[p] <= 1]_vars

\* C1 witness: a settled container on which a further settlement call was made.
C1_Witness ==
    \E p \in deferred : ncalls[p] >= 2 /\ state[p] # "pending" /\ nsettle[p] = 1

\* C2: for one invocation of a thenable's then, at most one of all the calls
\* made to the two callbacks has an effect (runs its settlement); every other
\* call is ignored, also one made re-entrantly during the first.
C2_OnlyFirstCallHasEffect ==
    \A L \in 1..Len(latches) : latches[L].ran <= 1

\* C3: once resolve or reject of a constructed container has been called,
\* the container's state and payload are those the first call determines:
\* a later call changes nothing, whatever the first argument was.
C3_FirstCallDecides ==
    \A p \in Made : ncalls[p] >= 1 =>
        LET f == first[p] IN
        CASE f.which = "rej" -> state[p] = "rejected" /\ value[p] = f.v
          [] f.which = "res" /\ f.v = PromiseVal(p) ->
                state[p] = "rejected" /\ value[p] = TypeErr
          [] f.which = "res" /\ isPromise(f.v) /\ f.v # PromiseVal(p) ->
                /\ state[f.v.n] = "pending" => state[p] = "pending"
                /\ state[p] # "pending" =>
                      state[p] = state[f.v.n] /\ value[p] = value[f.v.n]
          [] f.which = "res" /\ f.v.k = "thenable" ->
                \* a thenable whose then neither calls back nor throws, and
                \* that has not called back since: still pending
                (/\ Thenables[f.v.t].kind = "callable"
                 /\ Thenables[f.v.t].script = <<>>
                 /\ \A L \in 1..Len(latches) :
                       latches[L].p = p => latches[L].calls = 0)
                    => state[p] = "pending"
          [] OTHER -> state[p] = "resolved" /\ value[p] = f.v

\* C4: no reaction's handler runs in the task of the then call that
\* registered it, nor in the task in which its container was settled.
C4_NeverInSameTask ==
    \A i \in Logged : ~log[i].inThenTask /\ ~log[i].inSettleTask

\* C5: reactions of one container are invoked in the order of their
\* registration: whenever a reaction's handler is invoked, every reaction
\* registered earlier on the same container has been invoked before it.
C5_FifoOrder ==
    \A j \in Logged :
        \A r \in 1..(log[j].rid - 1) :
            reactions[r].src = Src(j) => \E i \in 1..(j - 1) : log[i].rid = r

\* C5 witness: two reactions of one container have fired, the second one
\* registered during the drain that fired the first.
C5_Witness ==
    \E i, j \in Logged :
        i < j /\ Src(i) = Src(j) /\ log[j].inThenTask /\ ~log[i].inThenTask

\* C6: a pending container asked to fulfill with itself is rejected with a
\* TypeError.
C6_SelfResolutionRejects ==
    \A p \in 1..Len(state) :
        selfAsk[p] => state[p] = "rejected" /\ value[p] = TypeErr

\* C6 witness: a then handler returned the container its then call produced.
C6_Witness ==
    \E r \in 1..Len(reactions) :
        reactions[r].onFulfilled.k = "self" /\ selfAsk[reactions[r].d]

\* c was asked once, by the program, to fulfill with the other container q.
FollowsOnly(c, q) ==
    /\ c \in Made /\ q \in 1..Len(state) /\ q # c
    /\ ncalls[c] = 1
    /\ first[c] = [which |-> "res", v |-> PromiseVal(q)]

\* C7: a container c asked to fulfill with another container q, and with
\* nothing else, is pending while q is; once q is settled c eventually
\* settles, rejected with q's reason, or as the resolution procedure
\* dictates for q's value.
C7_FollowsContainer ==
    /\ [](\A c, q \in 1..Len(state) : FollowsOnly(c, q) =>
            /\ state[q] = "pending" => state[c] = "pending"
            /\ state[c] # "pending" =>
                 IF state[q] = "rejected"
                 THEN state[c] = "rejected" /\ value[c] = value[q]
                 ELSE [state |-> state[c], value |-> value[c]]
                         = Dictates(c, value[q]))
    \* while c is still pending after q settled, the host holds a task ...
    /\ [](\A c, q \in 1..Len(state) :
            FollowsOnly(c, q) /\ state[q] # "pending" /\ state[c] = "pending"
                => timers # <<>>)
    \* ... and the host's queue runs empty again and again
    /\ []<>(timers = <<>>)

\* C7 witness: c followed q and fulfilled with q's value.
C7_Witness ==
    \E c, q \in 1..Len(state) :
        FollowsOnly(c, q) /\ state[c] = "resolved" /\ value[c] = Num(1)
           /\ state[q] = "resolved" /\ q \in deferred

----------------------------------------------------------------------------
\* The program of the claims about values: it fulfills with every kind of
\* value that is not a thenable, rejects with thenables and containers, and
\* constructs containers whose executor throws.

PlainValues == {Num(1), Num(0), Null, Undef, TypeErr, Func, Thenable("plain")}

Values == PlainValues \cup {Thenable("later")}

\* The reasons, besides containers.
Reasons == {Boom} \cup {Thenable(t) : t \in {"twice", "getter", "plain"}}

Setups ==
    {<<Op("throw", "", Err)>>,
     <<Op("res", "", Num(1)), Op("throw", "", Err)>>,
     <<Op("rej", "", Boom), Op("throw", "", Err)>>,
     <<Op("res", "", Thenable("later")), Op("throw", "", Err)>>,
     <<Op("res", "", Thenable("twice")), Op("throw", "", Err)>>}

ValueNext ==
    \/ StepWith(Values, FALSE, Reasons, TRUE, {<<None, None>>})
    \/ \E setup \in Setups : Construct(setup)

ValueSpec == Init /\ [][ValueNext]_vars

\* The containers the static operation `which` returned.
StaticOf(which) ==
    {p \in Made \ deferred : first[p].which = which /\ ncalls[p] = 1}

\* then is never called on behalf of p: no thenable was handed callbacks
\* of p, and no container was subscribed to with p's _resolver.
NeverUnwrapped(p) ==
    /\ \A L \in 1..Len(latches) : latches[L].p # p
    /\ \A r \in 1..Len(reactions) : reactions[r].onFulfilled # Fn("resolver", PromiseVal(p))

\* C11: the container that the static reject(r) returns is rejected with
\* exactly r, also when r is a thenable or a container: r's then is never
\* read or called, and the container is never fulfilled.
C11_StaticRejectOpaque ==
    \A p \in StaticOf("rej") :
        state[p] = "rejected" /\ value[p] = first[p].v /\ NeverUnwrapped(p)

\* C11 witness: containers rejected with a thenable and with a container,
\* and a reaction of one of them has fired.
C11_Witness ==
    /\ \E p \in StaticOf("rej") : value[p].k = "thenable"
    /\ \E p \in StaticOf("rej") :
          isPromise(value[p]) /\ \E i \in Logged : Src(i) = p

\* v is not a thenable: a primitive, null, undefined, or an object or
\* function whose then member is absent or not callable.
NonThenable(v) ==
    /\ ~isPromise(v)
    /\ v.k = "thenable" => Thenables[v.t].kind = "notCallable"

\* C12: for a value v that is not a thenable, the container that the static
\* resolve(v) returns is fulfilled with exactly v, and never rejected.
C12_StaticResolvePlain ==
    \A p \in StaticOf("res") : NonThenable(first[p].v) =>
        state[p] = "resolved" /\ value[p] = first[p].v

\* C12 witness: resolve(null) and resolve of an object whose then is not
\* callable have fulfilled, and a reaction of such a container has fired.
C12_Witness ==
    /\ \E p \in StaticOf("res") : value[p] = Null
    /\ \E p \in StaticOf("res") :
          value[p] = Thenable("plain") /\ \E i \in Logged : Src(i) = p

\* C13: when the executor throws e, the constructor returns normally with
\* the container rejected with e if it was pending at the throw, and with
\* its earlier state and payload if the executor had settled it before.
C13_SetupThrowRejects ==
    \A p \in 1..Len(state) : caught[p] # NoCatch =>
        IF caught[p].st = "pending"
        THEN state[p] = "rejected" /\ value[p] = caught[p].e
        ELSE state[p] = caught[p].st /\ value[p] = caught[p].val

\* C13 witness: one executor threw while its container was pending, another
\* after it had fulfilled its container.
C13_Witness ==
    /\ \E p \in 1..Len(state) :
          caught[p].st = "pending" /\ first[p].which = "res" /\ state[p] = "rejected"
    /\ \E p \in 1..Len(state) : caught[p].st = "resolved" /\ state[p] = "resolved"

----------------------------------------------------------------------------
\* The program of the chaining claim: A.then(() => T).then() for a thenable
\* T that resolves through further thenables or through a container.

ChainNext ==
    \/ StepWith({Num(1)}, FALSE, {Boom}, FALSE, {<<None, None>>})
    \/ \E p \in Promises, t \in {"chain3", "viaFirst"} :
          CallThenThen(p, Fn("const", Thenable(t)))

ChainSpec == Init /\ [][ChainNext]_vars /\ WF_vars(RunTask)

\* The invocations of a fulfillment handler that returned a thenable.
ChainLinks ==
    {i \in Logged : /\ log[i].member = "onFulfilled"
                    /\ HandlerOf(i).k = "const" /\ HandlerOf(i).v.k = "thenable"}

\* What the thenable returned at link i has come to so far: [done, ok, y],
\* fulfilled with y when done and ok.  chain3 ends in the thenable `later`,
\* which fulfills or rejects with the first call it makes; viaFirst ends in
\* the program's first container.
Yields(i) ==
    LET b == Derived(i)
        Ls == {L \in 1..Len(latches) : latches[L].p = b /\ latches[L].t = "later"}
        f == latches[CHOOSE L \in Ls : TRUE].fst
    IN IF HandlerOf(i).v.t = "viaFirst"
       THEN [done |-> state[1] # "pending", ok |-> state[1] = "resolved", y |-> value[1]]
       ELSE IF Ls = {} THEN [done |-> FALSE, ok |-> FALSE, y |-> Undef]
       ELSE [done |-> f.op # "none", ok |-> f.op = "res", y |-> f.v]

\* The containers C = B.then() of the container B derived at link i.
After(i) ==
    {reactions[r].d : r \in {r \in 1..Len(reactions) :
        /\ reactions[r].src = Derived(i)
        /\ reactions[r].onFulfilled = None /\ reactions[r].onRejected = None}}

\* C14: for B = A.then(h) and C = B.then(), A fulfilled and h returning a
\* thenable T: B and C are fulfilled only with the value y that T's chain of
\* thenables and containers ends in, never with T or a thenable on the way,
\* and once T has fulfilled with y both eventually are fulfilled with y.
C14_TransitiveUnwrap ==
    /\ [](\A i \in ChainLinks : \A c \in {Derived(i)} \cup After(i) :
            state[c] = "resolved" =>
                Yields(i).done /\ Yields(i).ok /\ value[c] = Yields(i).y
                    /\ ~isObject(value[c]))
    \* while B or C is behind a fulfilled T, the host holds a task ...
    /\ [](\A i \in ChainLinks : \A c \in {Derived(i)} \cup After(i) :
            Yields(i).done /\ Yields(i).ok /\ state[c] # "resolved"
                => timers # <<>>)
    \* ... and the host's queue runs empty again and again
    /\ []<>(timers = <<>>)

\* C14 witness: T resolved through two further thenables, the last of which
\* fulfilled in a later task, and B and C are fulfilled with its value.
C14_Witness ==
    \E i \in ChainLinks :
        /\ HandlerOf(i).v.t = "chain3" /\ Yields(i).y = Num(2)
        /\ state[Derived(i)] = "resolved" /\ After(i) # {}
        /\ \A c \in After(i) : state[c] = "resolved" /\ value[c] = Num(2)

\* C15 as stated: when reading or calling a thenable's then throws e and
\* neither callback has been called, the container is rejected with e; when
\* one has been called, the throw changes nothing.
C15_ThrowRejectsUnlessCalled ==
    \A k \in 1..Len(threw) :
        IF threw[k].called THEN ~threw[k].hit
        ELSE state[threw[k].p] = "rejected" /\ value[threw[k].p] = threw[k].e

\* C15, amended: when reading or calling a thenable's then throws e and
\* neither callback has been called, the container is rejected with e if it
\* was still pending at the throw and keeps its state and payload if not;
\* when a callback has been called, the throw changes nothing.
C15_ThrowRejectsPending ==
    \A k \in 1..Len(threw) :
        IF threw[k].called \/ threw[k].st # "pending" THEN ~threw[k].hit
        ELSE state[threw[k].p] = "rejected" /\ value[threw[k].p] = threw[k].e

\* C15 witness: one then threw before calling anything and rejected its
\* pending container; another threw after resolving with a thenable that
\* has not called back, and its container is still pending.
C15_Witness ==
    /\ \E k \in 1..Len(threw) :
          ~threw[k].called /\ threw[k].st = "pending" /\ threw[k].hit
    /\ \E k \in 1..Len(threw) :
          threw[k].called /\ state[threw[k].p] = "pending"

\* The reactions whose handler has been invoked.
Fired == {log[i].rid : i \in Logged}

\* C16: a reaction of a settled container is never dropped: until it has
\* fired it is in the container's queue and a drain of that container is
\* among the host's tasks, and the host runs all its tasks; so every
\* reaction of a container that is or becomes settled eventually fires, also
\* one registered while a drain of the container is running.
C16_EveryReactionFires ==
    /\ [](\A r \in 1..Len(reactions) : r \notin Fired =>
            LET src == reactions[r].src IN
            /\ \E k \in 1..Len(callbacks[src]) : callbacks[src][k] = r
            /\ state[src] # "pending" =>
                  \E k \in 1..Len(timers) : timers[k].p = src)
    /\ []<>(timers = <<>>)

\* C16 witness: a reaction registered by a handler during the drain of its
\* container has fired and fulfilled its derived container, and no task
\* is left.
C16_Witness ==
    /\ timers = <<>>
    /\ \E i \in Logged :
          /\ log[i].inThenTask /\ HandlerOf(i).k = "inc"
          /\ state[Derived(i)] = "resolved"

\* The reactions registered on p, in the order of their registration.
RECURSIVE RegisteredOn(_, _)
RegisteredOn(p, n) ==
    IF n = 0 THEN <<>>
    ELSE IF reactions[n].src = p THEN Append(RegisteredOn(p, n - 1), n)
    ELSE RegisteredOn(p, n - 1)

\* C17: no handler of a reaction is invoked while its container is pending:
\* for a pending container no drain is among the host's tasks, and its
\* queue holds every reaction registered on it, in registration order.
C17_NothingFiresWhilePending ==
    /\ \A i \in Logged : state[Src(i)] # "pending"
    /\ \A p \in 1..Len(state) : state[p] = "pending" =>
          /\ \A k \in 1..Len(timers) : timers[k].p # p
          /\ \A r \in 1..Len(reactions) : reactions[r].src = p => r \notin Fired
          /\ callbacks[p] = RegisteredOn(p, Len(reactions))

\* C17 witness: a pending container with two reactions queued, both then
\* calls having scheduled nothing.
C17_Witness ==
    \E p \in 1..Len(state) :
        state[p] = "pending" /\ Len(callbacks[p]) >= 2 /\ timers = <<>>

\* C18 as stated: a container's queue of reactions is non-empty only while
\* the container is pending.
C18_QueueEmptyUnlessPending ==
    \A p \in 1..Len(state) : callbacks[p] # <<>> => state[p] = "pending"

\* C18, amended: a container's queue of reactions is non-empty only while
\* the container is pending or a drain of it is among the host's tasks.
C18_QueueEmptyUnlessPendingOrDraining ==
    \A p \in 1..Len(state) : callbacks[p] # <<>> =>
        state[p] = "pending" \/ \E k \in 1..Len(timers) : timers[k].p = p

\* C18 witness: a settled container whose queue holds a reaction, and one
\* whose queue a drain has emptied.
C18_Witness ==
    /\ \E p \in 1..Len(state) : state[p] # "pending" /\ callbacks[p] # <<>>
    /\ \E i \in Logged : callbacks[Src(i)] = <<>>

\* C19: a fulfilled container never stores a container, or an object whose
\* then is callable, as its payload; a pending container stores null.
C19_PayloadNeverThenable ==
    \A p \in 1..Len(state) :
        /\ state[p] = "pending" => value[p] = Null
        /\ state[p] = "resolved" =>
              /\ ~isPromise(value[p])
              /\ value[p].k = "thenable" => Thenables[value[p].t].kind # "callable"

\* C19 witness: one container is fulfilled through a thenable, another was
\* asked to fulfill with a thenable that has not called back and is pending.
C19_Witness ==
    /\ \E L \in 1..Len(latches) :
          latches[L].ran = 1 /\ state[latches[L].p] = "resolved"
    /\ \E L \in 1..Len(latches) :
          latches[L].calls = 0 /\ state[latches[L].p] = "pending"

\* a and b, distinct, were each asked once, and only, to fulfill with the
\* other.
TwoCycle(a, b) ==
    /\ a # b /\ a \in Made /\ b \in Made
    /\ ncalls[a] = 1 /\ first[a] = [which |-> "res", v |-> PromiseVal(b)]
    /\ ncalls[b] = 1 /\ first[b] = [which |-> "res", v |-> PromiseVal(a)]

\* C20: two containers each asked to fulfill with the other, and nothing
\* else, are pending in every later state, and no reaction registered on
\* either ever fires.
C20_TwoCycleStaysPending ==
    \A a, b \in 1..Len(state) : TwoCycle(a, b) =>
        /\ state[a] = "pending" /\ state[b] = "pending"
        /\ \A r \in 1..Len(reactions) : reactions[r].src \in {a, b} => r \notin Fired

\* C20 witness: a two-cycle, each of the two holding the reaction by which
\* the other subscribed to it.
C20_Witness ==
    \E a, b \in 1..Len(state) :
        TwoCycle(a, b) /\ callbacks[a] # <<>> /\ callbacks[b] # <<>>

\* fn(x) for the handler invoked at log entry i: [thrown, v].
Result(i) ==
    LET c == Call(heap, HandlerOf(i), log[i].arg, reactions[log[i].rid])
    IN [thrown |-> c.thrown, v |-> c.v]

\* What resolving d with a handler's return value v comes to: v itself for
\* an ordinary value, a TypeError rejection for d itself, and for the
\* thenable `twice` the value of the first call it makes.
Expected(d, v) ==
    IF v = PromiseVal(d) THEN [state |-> "rejected", value |-> TypeErr]
    ELSE IF v = Thenable("twice") THEN [state |-> "resolved", value |-> Num(1)]
    ELSE [state |-> "resolved", value |-> v]

\* C8: for D = S.then(onFulfilled, onRejected), the handler matching S's
\* state, when a function, is called with S's payload; D is rejected with
\* what it throws, or resolved through the resolution procedure with what it
\* returns (r => r.length on "boom" fulfills D with 4, x => x + 1 on 1 with 2).
C8_HandlerResultSettlesDerived ==
    \A i \in Logged : HandlerOf(i).k \in UserFns =>
        LET d == Derived(i)
            res == Result(i)
            got == [state |-> state[d], value |-> value[d]]
        IN /\ log[i].arg = value[Src(i)]
           /\ log[i].member = IF state[Src(i)] = "resolved"
                              THEN "onFulfilled" ELSE "onRejected"
           /\ IF res.thrown
              THEN got = [state |-> "rejected", value |-> res.v]
              ELSE got = Expected(d, res.v) /\ got = Dictates(d, res.v)
           /\ HandlerOf(i).k = "len" /\ log[i].arg = Boom
                 => got = [state |-> "resolved", value |-> Num(4)]
           /\ HandlerOf(i).k = "inc" /\ log[i].arg = Num(1)
                 => got = [state |-> "resolved", value |-> Num(2)]

\* C8 witness: reject("boom").then(undefined, r => r.length) is fulfilled, and
\* a handler that threw has rejected its derived container.
C8_Witness ==
    /\ \E i \in Logged :
          /\ HandlerOf(i).k = "len" /\ log[i].member = "onRejected"
          /\ log[i].arg = Boom /\ state[Derived(i)] = "resolved"
          /\ value[Derived(i)] = Num(4)
    /\ \E i \in Logged : HandlerOf(i).k = "throw" /\ state[Derived(i)] = "rejected"

\* C9: for D = S.then(a, b) whose handler for S's state is not a function,
\* D fulfills with S's value, or rejects with S's reason; the reason goes
\* straight to rejection, its then member never being read or called.
C9_Passthrough ==
    \A i \in Logged : ~isFunction(HandlerOf(i)) =>
        LET d == Derived(i) IN
        /\ log[i].arg = value[Src(i)]
        /\ value[d] = log[i].arg
        /\ IF log[i].member = "onFulfilled"
           THEN state[Src(i)] = "resolved" /\ state[d] = "resolved"
           ELSE /\ state[Src(i)] = "rejected" /\ state[d] = "rejected"
                /\ \A L \in 1..Len(latches) : latches[L].p # d

\* C9 witness: a thenable used as a reason has passed through then().
C9_Witness ==
    \E i \in Logged :
        /\ ~isFunction(HandlerOf(i)) /\ log[i].member = "onRejected"
        /\ log[i].arg = Thenable("twice")
        /\ state[Derived(i)] = "rejected" /\ value[Derived(i)] = Thenable("twice")

\* C10: of the two handlers of a reaction at most one is ever invoked, at
\* most once: the one matching the container's state, with the container's
\* payload as its argument.
C10_FiresOnceMatching ==
    /\ \A i, j \in Logged : log[i].rid = log[j].rid => i = j
    /\ \A i \in Logged :
          /\ state[Src(i)] # "pending"
          /\ log[i].member = IF state[Src(i)] = "resolved"
                             THEN "onFulfilled" ELSE "onRejected"
          /\ log[i].arg = value[Src(i)]

\* C10 witness: two reactions registered on a settled container have fired
\* while a further drain of that container is still queued.
C10_Witness ==
    \E i, j \in Logged :
        /\ i # j /\ Src(i) = Src(j)
        /\ \E k \in 1..Len(timers) : timers[k].p = Src(i)

====
